---- MODULE Spec2Model ----
(***************************************************************************)
(* Model of akvorado's routing facade (inlet/routing/root.go) and of the   *)
(* dict-source backends and their configuration registry                   *)
(* (common/schema/dictsources.go).                                         *)
(*                                                                         *)
(* A Go pointer or interface value that may be nil is a sequence of length *)
(* at most one: <<>> is nil, <<v>> points to v.  A Go call ends either by  *)
(* returning (kind "return") or by panicking (kind "panic").               *)
(***************************************************************************)
EXTENDS Naturals, Sequences, FiniteSets, TLC

VARIABLES
    comp,     \* *Component returned by New: <<>> or <<[provider |-> p]>>
    state,    \* lifecycle of the facade as its caller observes it
    plog,     \* lifecycle methods invoked on the provider so far, in order
    last,     \* the last call made on the routing facade and what it did
    cfg,      \* the DictSourceConfiguration held by CustomDict: <<>> or <<c>>
    cfgKind,  \* the discriminator cfg was obtained under ("" when none)
    yaml,     \* the last value MarshalYAML produced: <<>> or <<[raw, of, ofKind]>>
    source,   \* the DictSource built by New: <<>> or <<s>>
    dres      \* the last dict-source operation and its outcome

vars == <<comp, state, plog, last, cfg, cfgKind, yaml, source, dres>>
routingVars == <<comp, state, plog, last>>
dictVars == <<cfg, cfgKind, yaml, source, dres>>

----------------------------------------------------------------------------
(* Bounds *)

MaxLog == 3          \* lifecycle invocations recorded before Start/Stop are cut off
MaxElapsed == 2      \* longest time a provider takes on a live context

----------------------------------------------------------------------------
(* Values *)

Nil == ""                                  \* the nil error
Errors == {"errA", "errB"}                 \* non-nil error values
ErrorsOrNil == Errors \cup {Nil}

Contexts == {"background", "cancelled", "deadlineExceeded"}
DoneContexts == {"cancelled", "deadlineExceeded"}   \* ctx.Err() /= nil
Addrs == {"192.0.2.1", "2001:db8::1"}

EmptyResult == [asn |-> 0, asPath |-> <<>>, communities |-> {}]
LookupResults ==
    { EmptyResult,
      [asn |-> 65001, asPath |-> <<65001>>, communities |-> {}],
      [asn |-> 65002, asPath |-> <<65001, 65002>>, communities |-> {100}] }

\* The dynamic type of a provider: which optional interfaces it implements.
Providers == [starter : BOOLEAN, stopper : BOOLEAN]

Return(v, d) == [kind |-> "return", val |-> v, elapsed |-> d]
Panic(v, d) == [kind |-> "panic", val |-> v, elapsed |-> d]
NotCalled == [kind |-> "none", val |-> Nil, elapsed |-> 0]

Invoke(m, a) == [method |-> m, args |-> a]

----------------------------------------------------------------------------
(* The provider, as the facade sees it *)

\* Bound on the time a provider takes to notice a done context.
CancelBound == 1

\* provider.Provider.Lookup: on a done context the provider answers the empty
\* result within CancelBound; otherwise it answers any result, or faults.
ProviderLookup(args) ==
    IF args[1] \in DoneContexts
      THEN { Return(EmptyResult, d) : d \in 0..CancelBound }
      ELSE { Return(r, d) : r \in LookupResults, d \in 0..MaxElapsed }
           \cup { Panic(EmptyResult, d) : d \in 0..MaxElapsed }

\* starter.Start / stopper.Stop of the provider: returns nil or an error.
ProviderLifecycle == { Return(e, 0) : e \in ErrorsOrNil }

\* configuration.Provider.Config.New(r, dependencies): a provider or an error.
ProviderConfigNew ==
    { [provider |-> <<p>>, err |-> Nil] : p \in Providers }
    \cup { [provider |-> <<>>, err |-> e] : e \in Errors }

----------------------------------------------------------------------------
(* inlet/routing/root.go *)

Lifecycle(calls) ==
    LET M(i) == calls[i].method
        RECURSIVE F(_)
        F(i) == IF i > Len(calls) THEN <<>>
                ELSE (IF M(i) \in {"Start", "Stop"} THEN <<M(i)>> ELSE <<>>) \o F(i + 1)
    IN F(1)

\* New, line 33-39: the component is returned only when the provider was built.
NewReturn(r) ==
    IF r.err # Nil THEN [c |-> <<>>, err |-> r.err]
    ELSE [c |-> <<[provider |-> r.provider[1]]>>, err |-> Nil]

New ==
    /\ comp = <<>>
    /\ \E r \in ProviderConfigNew :
         LET ret == NewReturn(r) IN
         /\ comp' = ret.c
         /\ state' = IF ret.err = Nil THEN "Constructed" ELSE state
         /\ last' = [op |-> "New", args |-> <<>>, before |-> state,
                     pcalls |-> <<>>, pout |-> NotCalled,
                     ret |-> Return(ret.err, 0)]
    /\ UNCHANGED <<plog, dictVars>>

\* Start, line 45: c.provider.(starter)
StartAsserts(p) == p.starter

\* Start, line 45-46: the provider calls Start makes.
StartCalls(p) == IF StartAsserts(p) THEN <<Invoke("Start", <<>>)>> ELSE <<>>

\* Start, line 46-50: what Start returns, given what the provider returned.
StartReturnSwallow(called, perr) == Nil
StartReturn(called, perr) == IF called /\ perr # Nil THEN perr ELSE Nil

Start ==
    /\ comp # <<>>
    /\ Len(plog) < MaxLog
    /\ LET calls == StartCalls(comp[1].provider) IN
       \E pout \in (IF calls = <<>> THEN {NotCalled} ELSE ProviderLifecycle) :
         LET ret == StartReturn(calls # <<>>, pout.val) IN
         /\ plog' = plog \o Lifecycle(calls)
         /\ state' = IF ret = Nil THEN "Running" ELSE state
         /\ last' = [op |-> "Start", args |-> <<>>, before |-> state,
                     pcalls |-> calls, pout |-> pout, ret |-> Return(ret, 0)]
    /\ UNCHANGED <<comp, dictVars>>

\* Stop, line 56: c.provider.(stopper)
StopAssertsStarter(p) == p.starter
StopAsserts(p) == p.stopper

\* Stop, line 56-57: the provider calls Stop makes.
StopCalls(p) == IF StopAsserts(p) THEN <<Invoke("Stop", <<>>)>> ELSE <<>>

\* Stop, line 57-61: what Stop returns, given what the provider returned.
StopReturn(called, perr) == IF called /\ perr # Nil THEN perr ELSE Nil

Stop ==
    /\ comp # <<>>
    /\ Len(plog) < MaxLog
    /\ LET calls == StopCalls(comp[1].provider) IN
       \E pout \in (IF calls = <<>> THEN {NotCalled} ELSE ProviderLifecycle) :
         LET ret == StopReturn(calls # <<>>, pout.val) IN
         /\ plog' = plog \o Lifecycle(calls)
         /\ state' = IF ret = Nil THEN "Stopped" ELSE state
         /\ last' = [op |-> "Stop", args |-> <<>>, before |-> state,
                     pcalls |-> calls, pout |-> pout, ret |-> Return(ret, 0)]
    /\ UNCHANGED <<comp, dictVars>>

\* Lookup, line 75: the provider calls Lookup makes.
LookupCallsBackground(ctx, ip, nh) == <<Invoke("Lookup", <<"background", ip, nh>>)>>
LookupCallsLazyStart(ctx, ip, nh) ==
    <<Invoke("Start", <<>>), Invoke("Lookup", <<ctx, ip, nh>>)>>
LookupCalls(ctx, ip, nh) == <<Invoke("Lookup", <<ctx, ip, nh>>)>>

\* Lookup, line 75: the outcome of Lookup, given the provider's outcome. There
\* is no recover: the provider's panic is the facade's panic.
LookupReturnDropsPath(pout) == [pout EXCEPT !.val.asPath = <<>>]
LookupReturn(pout) == pout

Lookup(ctx, ip, nh) ==
    /\ comp # <<>>
    /\ LET calls == LookupCalls(ctx, ip, nh)
           lk == SelectSeq(calls, LAMBDA c : c.method = "Lookup")
       IN
       \E pout \in ProviderLookup(lk[1].args) :
         /\ plog' = plog \o Lifecycle(calls)
         /\ last' = [op |-> "Lookup", args |-> <<ctx, ip, nh>>, before |-> state,
                     pcalls |-> calls, pout |-> pout, ret |-> LookupReturn(pout)]
    /\ UNCHANGED <<comp, state, dictVars>>

----------------------------------------------------------------------------
(* common/schema/dictsources.go: configurations and their constructors *)

Strings == {"", "main"}            \* values of a string field
Keys == {"a.csv", "b.csv"}         \* keys handed to Get
S3Components == {<<>>, <<"s3">>}   \* *s3.Component: nil or a component

Ret2(v, e) == [kind |-> "return", val |-> v, err |-> e]
Panic2(msg) == [kind |-> "panic", val |-> <<>>, err |-> msg]

\* A configuration value: its Go type and its fields as <<name, value>> pairs.
FileDictSourceConfiguration == [type |-> "FileDictSourceConfiguration", fields |-> {}]
HttpDictSourceConfiguration(baseURL) ==
    [type |-> "HttpDictSourceConfiguration", fields |-> {<<"BaseURL", baseURL>>}]
S3DictSourceConfiguration(s3Config) ==
    [type |-> "S3DictSourceConfiguration", fields |-> {<<"S3Config", s3Config>>}]
S3MockDictSourceConfiguration == [type |-> "S3MockDictSourceConfiguration", fields |-> {}]

Configurations ==
    {FileDictSourceConfiguration, S3MockDictSourceConfiguration}
    \cup { HttpDictSourceConfiguration(s) : s \in Strings }
    \cup { S3DictSourceConfiguration(s) : s \in Strings }

\* A DictSource instance: its Go type and its fields.
FileDictSource == [type |-> "FileDictSource", config |-> <<>>, c |-> <<>>]
HttpDictSource == [type |-> "HttpDictSource", config |-> <<>>, c |-> <<>>]
S3DictSource(sc, c) == [type |-> "S3DictSource", config |-> <<sc>>, c |-> c]

DefaultFileDictSourceConfiguration == FileDictSourceConfiguration
DefaultHttpDictSourceConfiguration == HttpDictSourceConfiguration("")
DefaultS3DictSourceConfiguration == S3DictSourceConfiguration("")
DefaultS3MockDictSourceConfiguration == S3MockDictSourceConfiguration

FileDictSourceConfiguration_New(sc, c) == Ret2(<<FileDictSource>>, Nil)
HttpDictSourceConfiguration_New(sc, c) == Ret2(<<HttpDictSource>>, Nil)
S3DictSourceConfiguration_New(sc, c) == Ret2(<<S3DictSource(sc, c)>>, Nil)

S3MockDictSourceConfiguration_NewInert(sc, c) ==
    Ret2(<<S3DictSource(S3DictSourceConfiguration(""), c)>>, Nil)
S3MockDictSourceConfiguration_New(sc, c) == Panic2("not implemented")

\* DictSourceConfiguration.New, dispatched on the dynamic type of sc.
ConfigurationNew(sc, c) ==
    CASE sc.type = "FileDictSourceConfiguration" -> FileDictSourceConfiguration_New(sc, c)
      [] sc.type = "HttpDictSourceConfiguration" -> HttpDictSourceConfiguration_New(sc, c)
      [] sc.type = "S3DictSourceConfiguration" -> S3DictSourceConfiguration_New(sc, c)
      [] sc.type = "S3MockDictSourceConfiguration" -> S3MockDictSourceConfiguration_New(sc, c)

----------------------------------------------------------------------------
(* common/schema/dictsources.go: Get, and what it calls *)

\* os.Open(key)
OsOpen(key) ==
    { Ret2(<<"file", key>>, Nil), Ret2(<<>>, "ENOENT"), Ret2(<<>>, "EACCES") }

\* http.Get(key): a response (whatever its status) or a network error.
HttpGet(key) ==
    { [kind |-> "return", val |-> <<[status |-> st, body |-> <<"body", key, st>>]>>,
       err |-> Nil] : st \in {200, 404} }
    \cup { Ret2(<<>>, "dial tcp: no route to host") }

\* s3.Component.GetObject(config, key) on the handle the source carries.
GetObject(c, config, key) ==
    IF c = <<>>
      THEN { Panic2("nil pointer dereference"), Ret2(<<>>, "no s3 component") }
      ELSE { Ret2(<<"object", config, key>>, Nil), Ret2(<<>>, "NoSuchKey"),
             Panic2("index out of range") }

\* What Get calls, on the dynamic type of the source s.
Backend(s, key) ==
    CASE s.type = "FileDictSource" -> OsOpen(key)
      [] s.type = "HttpDictSource" -> HttpGet(key)
      [] s.type = "S3DictSource" ->
           GetObject(s.c, (CHOOSE f \in s.config[1].fields : f[1] = "S3Config")[2], key)

\* FileDictSource.Get, line 35
FileDictSource_Get(r) == r

\* HttpDictSource.Get, line 60-65
HttpDictSource_Get(r) ==
    IF r.err # Nil THEN Ret2(<<>>, r.err) ELSE Ret2(r.val[1].body, Nil)

\* S3DictSource.Get, line 93-98: no recover, a panic of GetObject goes through.
S3DictSource_GetDropsErr(r) == IF r.kind = "panic" THEN r ELSE Ret2(r.val, Nil)
S3DictSource_Get(r) ==
    IF r.kind = "panic" THEN r
    ELSE IF r.err # Nil THEN Ret2(<<>>, r.err) ELSE Ret2(r.val, Nil)

SourceGet(s, r) ==
    CASE s.type = "FileDictSource" -> FileDictSource_Get(r)
      [] s.type = "HttpDictSource" -> HttpDictSource_Get(r)
      [] s.type = "S3DictSource" -> S3DictSource_Get(r)

----------------------------------------------------------------------------
(* common/schema/dictsources.go: the registry and the (un)marshalling hooks *)

dictSourceConfigurationMapUpperS3 ==
    "file" :> DefaultFileDictSourceConfiguration
    @@ "http" :> DefaultHttpDictSourceConfiguration
    @@ "S3" :> DefaultS3DictSourceConfiguration
    @@ "s3mock" :> DefaultS3MockDictSourceConfiguration
dictSourceConfigurationMapMockIsS3 ==
    "file" :> DefaultFileDictSourceConfiguration
    @@ "http" :> DefaultHttpDictSourceConfiguration
    @@ "s3" :> DefaultS3DictSourceConfiguration
    @@ "s3mock" :> DefaultS3DictSourceConfiguration
dictSourceConfigurationMap ==
    "file" :> DefaultFileDictSourceConfiguration
    @@ "http" :> DefaultHttpDictSourceConfiguration
    @@ "s3" :> DefaultS3DictSourceConfiguration
    @@ "s3mock" :> DefaultS3MockDictSourceConfiguration

DefaultConfig(k) == dictSourceConfigurationMap[k]

\* The key a Go field is written under, and read from, in structured form.
KeyOf(field) ==
    CASE field = "BaseURL" -> "baseurl"
      [] field = "S3Config" -> "s3config"

\* Structured (YAML-side) values: a discriminator and <<key, value>> pairs.
RawKinds == {"file", "http", "s3", "s3mock", "S3", "File", "ftp", ""}
RawFields == {{}} \cup { {<<k, v>>} : k \in {"baseurl", "s3config"}, v \in Strings }
RawInputs == [kind : RawKinds, fields : RawFields]

\* ParametrizedConfigurationUnmarshallerHook(CustomDict{}, dictSourceConfigurationMap):
\* read the discriminator, resolve the default, overlay the remaining fields.
Decode(raw) ==
    IF raw.kind \notin DOMAIN dictSourceConfigurationMap
      THEN [config |-> <<>>, err |-> "UnknownBackendKind"]
      ELSE LET def == dictSourceConfigurationMap[raw.kind]
               Over(f) == IF \E p \in raw.fields : p[1] = KeyOf(f[1])
                            THEN (CHOOSE p \in raw.fields : p[1] = KeyOf(f[1]))[2]
                            ELSE f[2]
           IN [config |-> <<[type |-> def.type,
                             fields |-> { <<f[1], Over(f)>> : f \in def.fields }]>>,
               err |-> Nil]

\* ParametrizedConfigurationMarshalYAML(cc, dictSourceConfigurationMap): the
\* discriminator is a key of the registry whose default has the type of the
\* configuration (the map is iterated in no fixed order), plus its fields.
Encode(c) ==
    { [kind |-> k, fields |-> { <<KeyOf(f[1]), f[2]>> : f \in c.fields }] :
        k \in { k \in DOMAIN dictSourceConfigurationMap :
                  dictSourceConfigurationMap[k].type = c.type } }

----------------------------------------------------------------------------
(* Operations on a dict source *)

\* A caller takes the default configuration of a registered kind.
Default(k) ==
    /\ cfg' = <<DefaultConfig(k)>>
    /\ cfgKind' = k
    /\ dres' = [op |-> "Default", in |-> k, out |-> DefaultConfig(k)]
    /\ UNCHANGED <<yaml, source, routingVars>>

\* The unmarshaller hook decodes a structured value into the configuration.
Unmarshal(raw) ==
    LET r == Decode(raw) IN
    /\ cfg' = IF r.err = Nil THEN r.config ELSE cfg
    /\ cfgKind' = IF r.err = Nil THEN raw.kind ELSE cfgKind
    /\ dres' = [op |-> "Decode", in |-> raw, out |-> r]
    /\ UNCHANGED <<yaml, source, routingVars>>

\* CustomDict.MarshalYAML, line 136-138
MarshalYAML ==
    /\ cfg # <<>>
    /\ \E raw \in Encode(cfg[1]) :
         /\ yaml' = <<[raw |-> raw, of |-> cfg[1], ofKind |-> cfgKind]>>
         /\ dres' = [op |-> "Encode", in |-> cfg[1], out |-> raw]
    /\ UNCHANGED <<cfg, cfgKind, source, routingVars>>

\* The configuration builds its dict source.
SourceNew(c) ==
    /\ cfg # <<>>
    /\ LET r == ConfigurationNew(cfg[1], c) IN
       /\ source' = IF r.kind = "return" /\ r.err = Nil THEN r.val ELSE source
       /\ dres' = [op |-> "New", in |-> [config |-> cfg[1], c |-> c], out |-> r]
    /\ UNCHANGED <<cfg, cfgKind, yaml, routingVars>>

\* DictSource.Get(key) on the source built.
Get(key) ==
    /\ source # <<>>
    /\ \E r \in Backend(source[1], key) :
         dres' = [op |-> "Get", in |-> [source |-> source[1], key |-> key, backend |-> r],
                  out |-> SourceGet(source[1], r)]
    /\ UNCHANGED <<cfg, cfgKind, yaml, source, routingVars>>

----------------------------------------------------------------------------
(* Specifications *)

Init ==
    /\ comp = <<>>
    /\ state = "Uninitialized"
    /\ plog = <<>>
    /\ last = [op |-> "none", args |-> <<>>, before |-> "Uninitialized",
               pcalls |-> <<>>, pout |-> NotCalled, ret |-> NotCalled]
    /\ cfg = <<>>
    /\ cfgKind = ""
    /\ yaml = <<>>
    /\ source = <<>>
    /\ dres = [op |-> "none", in |-> <<>>, out |-> <<>>]

NextRouting ==
    \/ New
    \/ Start
    \/ Stop
    \/ \E ctx \in Contexts, ip \in Addrs, nh \in Addrs : Lookup(ctx, ip, nh)

NextDict ==
    \/ \E k \in DOMAIN dictSourceConfigurationMap : Default(k)
    \/ \E raw \in RawInputs : Unmarshal(raw)
    \/ MarshalYAML
    \/ \E c \in S3Components : SourceNew(c)
    \/ \E key \in Keys : Get(key)

SpecRouting == Init /\ [][NextRouting]_vars
SpecDict == Init /\ [][NextDict]_vars

----------------------------------------------------------------------------
(* Properties of the routing facade, checked under SpecRouting *)

Methods(calls) == { calls[i].method : i \in DOMAIN calls }

\* C1: every Lookup(ctx, ip, nh) on the facade invokes the provider's Lookup
\* exactly once, with the same three arguments, and whenever the provider
\* returns a result the facade returns exactly that result, with nothing
\* added; its outcome is a LookupResult, there is no error value.
C1_LookupPassThrough ==
    last.op = "Lookup" =>
        /\ last.pcalls = <<Invoke("Lookup", last.args)>>
        /\ last.pout.kind = "return" =>
               /\ last.ret.kind = "return"
               /\ last.ret.val = last.pout.val
               /\ last.ret.elapsed = last.pout.elapsed

C1_Witness ==
    /\ last.op = "Lookup"
    /\ last.pout.kind = "return"
    /\ last.pout.val.asPath = <<65001, 65002>>
    /\ last.ret.val = last.pout.val

\* C2: a fault inside the provider during Lookup reaches the caller of
\* Component.Lookup as an empty LookupResult, and a fault inside a backend
\* during Get reaches the caller as a returned error; it never escapes as a
\* panic.
C2_FaultsNeverEscape ==
    /\ (last.op = "Lookup" /\ last.pout.kind = "panic") =>
           (last.ret.kind = "return" /\ last.ret.val = EmptyResult)
    /\ (dres.op = "Get" /\ (dres.in.backend.kind = "panic" \/ dres.in.backend.err # Nil)) =>
           (dres.out.kind = "return" /\ dres.out.err # Nil)

C4_StartFailurePropagates ==
    (/\ last.op = "Start"
     /\ last.before = "Constructed"
     /\ last.pcalls # <<>>
     /\ last.pout.val # Nil) =>
        /\ last.ret = Return(last.pout.val, 0)
        /\ state = "Constructed"

C4_Witness ==
    /\ last.op = "Start"
    /\ last.before = "Constructed"
    /\ last.pcalls = <<Invoke("Start", <<>>)>>
    /\ last.pout.val = "errA"
    /\ last.ret.val = "errA"
    /\ state = "Constructed"

\* C5: for op in {Start, Stop}: when the provider lacks the matching
\* capability the facade returns success and invokes nothing on the provider;
\* when it has it, the facade invokes it exactly once and returns what it
\* returned (nil or the provider's failure).
C5_LifecycleCapability ==
    \A op \in {"Start", "Stop"} :
        last.op = op =>
            LET p == comp[1].provider
                has == IF op = "Start" THEN p.starter ELSE p.stopper
            IN IF has
                 THEN /\ last.pcalls = <<Invoke(op, <<>>)>>
                      /\ last.pout.kind = "return"
                      /\ last.ret = Return(last.pout.val, 0)
                 ELSE /\ last.pcalls = <<>>
                      /\ last.ret = Return(Nil, 0)

C5_Witness ==
    /\ last.op = "Stop"
    /\ comp[1].provider = [starter |-> FALSE, stopper |-> TRUE]
    /\ last.pcalls = <<Invoke("Stop", <<>>)>>
    /\ last.ret.val = "errB"

\* C10 as stated: in every sequence of calls the lifecycle only moves
\* forward: a facade that was Stopped before a call is Stopped after it, and
\* the provider's Start is never invoked after its Stop was.
C10_ForwardOnly ==
    /\ last.before = "Stopped" => state = "Stopped"
    /\ \A i, j \in DOMAIN plog : (i < j /\ plog[i] = "Stop") => plog[j] # "Start"

\* C10 as amended: only a Start call moves the facade out of Stopped, and only
\* a Start call invokes the provider's start capability; New, Stop and Lookup
\* never do, whatever the order of the calls.
C10_OnlyStartRestarts ==
    /\ (last.before = "Stopped" /\ state # "Stopped") => last.op = "Start"
    /\ last.op # "Start" => "Start" \notin Methods(last.pcalls)

C10_Witness ==
    /\ last.op = "Lookup"
    /\ last.before = "Stopped"
    /\ state = "Stopped"
    /\ plog = <<"Start", "Stop">>

----------------------------------------------------------------------------
(* Properties of the dict sources, checked under SpecDict *)

RegisteredKinds == {"file", "http", "s3", "s3mock"}

\* C6: decoding a structured value whose discriminator is not one of "file",
\* "http", "s3", "s3mock" (compared case-sensitively) fails with
\* UnknownBackendKind and yields no configuration.
C6_UnknownKindRejected ==
    (dres.op = "Decode" /\ dres.in.kind \notin RegisteredKinds) =>
        /\ dres.out.err = "UnknownBackendKind"
        /\ dres.out.config = <<>>

C6_Witness ==
    /\ dres.op = "Decode"
    /\ dres.in.kind = "S3"
    /\ dres.out.err = "UnknownBackendKind"
    /\ cfg = <<DefaultConfig("s3")>>

\* C7: for every registered kind k, encoding DefaultConfig(k) emits the
\* discriminator k, and decoding what was emitted gives DefaultConfig(k) back.
C7_DefaultRoundTrip ==
    \A k \in RegisteredKinds :
        (/\ dres.op = "Decode"
         /\ yaml # <<>>
         /\ yaml[1].ofKind = k
         /\ yaml[1].of = DefaultConfig(k)
         /\ dres.in = yaml[1].raw) =>
            /\ dres.in.kind = k
            /\ dres.out = [config |-> <<DefaultConfig(k)>>, err |-> Nil]

C7_Witness ==
    /\ dres.op = "Decode"
    /\ yaml # <<>>
    /\ yaml[1].ofKind = "s3mock"
    /\ yaml[1].of = DefaultS3MockDictSourceConfiguration
    /\ dres.in = yaml[1].raw
    /\ dres.out.config = <<DefaultS3MockDictSourceConfiguration>>

\* C8: New on the configuration of any registered kind ends normally: it
\* returns an instance or an error and never aborts its caller.
C8_NewTotal ==
    (dres.op = "New" /\ \E k \in RegisteredKinds : DefaultConfig(k).type = dres.in.config.type) =>
        dres.out.kind = "return"

====
